---------------------------- MODULE Spec2Model ----------------------------
(***************************************************************************)
(* Model of the import engine of discord-to-simplex (src/main.go, the      *)
(* second program of the file, lines 1550-3471): conversion of a Discord   *)
(* export into universal messages, and the transactional, batched,         *)
(* template-driven synthesis of rows in the SimpleX tables.                 *)
(*                                                                         *)
(* SQL values are modelled as tuples: <<>> is NULL (Go nil), <<v>> is the  *)
(* non-null value v.  A row is a function from column names to SQL values, *)
(* a table is the sequence of its rows in insertion order.                 *)
(***************************************************************************)
EXTENDS Integers, Sequences, FiniteSets, TLC

(* ------------------------------ bounds -------------------------------- *)

\* Largest number of messages in the export.
MaxMsgs == 3

\* Messages per batch (the program hard-codes 500; scaled down so that a
\* run has several batches).
batchSize == 2

\* Largest column count and row count tried by the chunking specification.
MaxColumns == 901

MaxRows == 4

(* ----------------------------- constants ------------------------------ *)

\* Parameter ceiling handed to calculateChunkSize by every bulk insert.
MaxParams == 900

\* Length above which file names are truncated.
MaxNameLen == 200

\* chunk_size written to files rows.
FileChunkSize == 16384

(* --------------------------- SQL values ------------------------------- *)

Null == <<>>

V(x) == <<x>>

EmptyMap == <<>>

Range(s) == {s[i] : i \in DOMAIN s}

Max(a, b) == IF a >= b THEN a ELSE b

Min(a, b) == IF a <= b THEN a ELSE b

\* The largest element of a non-empty set of integers.
MaxOf(S) == CHOOSE m \in S : \A n \in S : n <= m

(* ---------------------- conversions of the code ----------------------- *)

\* []byte(id): the shared_msg_id token of a message.
Bytes(id) == <<"bytes", id>>

\* string(sharedMsgID)
BytesToString(b) == b[2]

\* base64.StdEncoding.EncodeToString
Base64(b) == <<"b64", b>>

\* time.Parse(time.RFC3339, s) with the error ignored: the zero time on a
\* malformed string.
ZeroTime == [sec |-> 0, frac |-> 0, off |-> 0]

ParseRFC3339(s) ==
    IF s.ok THEN [sec |-> s.sec, frac |-> s.frac, off |-> s.off] ELSE ZeroTime

\* t.Format("2006-01-02 15:04:05"): wall-clock seconds, no fraction, no zone.
FormatSQL(t) == <<"sql", t.sec>>

\* t.Format(time.RFC3339): wall-clock seconds with the zone offset.
FormatRFC3339(t) == <<"rfc3339", t.sec, t.off>>

\* t.Format("2006-01-02 15:04:05.000000000")
FormatSQLNanos(t) == <<"sqlns", t.sec, t.frac>>

\* time.Now().Format("2006-01-02 15:04:05")
NowSQL == <<"sql", 1000>>

\* json.Marshal of a map: the map itself, tagged.
Json(m) == <<"json", m>>

(* ------------------------------ input --------------------------------- *)

myUsername == "me"

MsgIds == <<"d1", "d2", "d3", "d4", "d5">>

Texts == <<"hello", "hi back", "lol", "ok", "bye">>

\* An identifier no message of the export carries.
AbsentId == "dX"

\* Attachment descriptors of the export: name, extension, size; len is the
\* length of the file name.
Att(id, base, ext, size) ==
    [id |-> id, base |-> base, ext |-> ext, len |-> 8, fileSizeBytes |-> size]

AttShapes ==
    { <<Att("a1", "pic", ".png", 10)>>,
      <<Att("a2", "clip", ".mp4", 20)>>,
      <<Att("a3", "doc", ".pdf", 30)>>,
      <<Att("a4", "pic2", ".jpg", 40), Att("a5", "notes", ".txt", 50)>> }

\* A reaction of the export: the emoji object with its name, a sequence of
\* code points, and the number of users who reacted with it.
React(name, count) == [emoji |-> V([name |-> name]), count |-> count]

ReactShapes == { << React(<<"2764", "FE0F">>, 2), React(<<"1F44D">>, 1) >> }

DiscordTimestamp(k) == [ok |-> TRUE, sec |-> 100 * k, frac |-> 5, off |-> 2]

\* The exports tried: n messages with unique identifiers in chronological
\* order, authors alternating from `first`, and one feature: a message that
\* is a reply (to any message of the export, itself included, or to an
\* absent one), a message with attachments, a message with reactions, or
\* the first two messages with one attachment each.
BaseMessage(k, first) ==
    [ ID          |-> MsgIds[k],
      Timestamp   |-> DiscordTimestamp(k),
      Content     |-> Texts[k],
      Author      |-> IF (k % 2 = 1) = first THEN myUsername ELSE "friend",
      Attachments |-> <<>>,
      Reactions   |-> <<>>,
      Reference   |-> Null ]

Feature(at, to, atts, react) ==
    [at |-> at, to |-> to, atts |-> atts, react |-> react, atts2 |-> <<>>]

\* Two files of the same name sent one after the other, as Discord names
\* pasted images.
AttPairs ==
    { [first  |-> <<Att("a6", "image", ".png", 60)>>,
       second |-> <<Att("a7", "image", ".png", 70)>>] }

\* Message 1 carries atts and message 2 carries atts2.
PairFeature(pair) ==
    [at |-> 1, to |-> Null, atts |-> pair.first, react |-> <<>>,
     atts2 |-> pair.second]

Features(n) ==
    {Feature(0, Null, <<>>, <<>>)}
    \cup {Feature(k, V(t), <<>>, <<>>) :
            k \in 1..n, t \in {MsgIds[j] : j \in 1..n} \cup {AbsentId}}
    \cup {Feature(k, Null, a, <<>>) : k \in 1..n, a \in AttShapes}
    \cup {Feature(k, Null, <<>>, r) : k \in 1..n, r \in ReactShapes}
    \cup (IF n >= 2 THEN {PairFeature(pair) : pair \in AttPairs} ELSE {})

MakeExport(n, first, f) ==
    [k \in 1..n |->
        IF f.at = k
        THEN [BaseMessage(k, first) EXCEPT
                !.Reference = f.to, !.Attachments = f.atts, !.Reactions = f.react]
        ELSE IF f.at = k - 1 /\ f.atts2 # <<>>
        THEN [BaseMessage(k, first) EXCEPT !.Attachments = f.atts2]
        ELSE BaseMessage(k, first)]

Exports ==
    UNION { {MakeExport(n, first, f) : first \in BOOLEAN, f \in Features(n)} :
            n \in 1..MaxMsgs }

(* --------------------- conversion to universal form ------------------- *)

\* The file name of an attachment, fmt.Sprintf("%v", attMap["fileName"]).
FileName(a) == [base |-> a.base, ext |-> a.ext, len |-> a.len]

\* The switch on strings.ToLower(filepath.Ext(filename)).
MessageTypeOfExt(ext) ==
    CASE ext \in {".jpg", ".jpeg", ".png", ".gif", ".webp"} -> "image"
      [] ext \in {".mp4", ".webm", ".mov", ".avi"}          -> "video"
      [] ext \in {".mp3", ".wav", ".m4a", ".ogg"}           -> "voice"
      [] OTHER                                              -> "file"

UniversalAttachment(a) ==
    [ID |-> a.id, Filename |-> FileName(a), URL |-> a.id, Size |-> a.fileSizeBytes]

\* The attachment loop: every attachment overwrites messageType, so the
\* type left is the one of the last attachment.
ConvertMessageType(atts) ==
    IF Len(atts) = 0 THEN "text" ELSE MessageTypeOfExt(atts[Len(atts)].ext)

\* First pass of main: the maps over the entire export.
BuildDiscordToSharedMsgID(msgs) ==
    [id \in {msgs[k].ID : k \in DOMAIN msgs} |-> Bytes(id)]

BuildDiscordMessages(msgs) ==
    [id \in {msgs[k].ID : k \in DOMAIN msgs} |->
        msgs[MaxOf({k \in DOMAIN msgs : msgs[k].ID = id})]]

\* The reactions: every entry that holds an emoji object gives its name and
\* count; any other entry is skipped.
ConvertReactions(reactions) ==
    LET withEmoji == SelectSeq(reactions, LAMBDA react : react.emoji # Null)
    IN  [r \in DOMAIN withEmoji |->
            [Emoji |-> withEmoji[r].emoji[1].name, Count |-> withEmoji[r].count]]

\* A quote view that takes its timestamp and text from the replying message.
ConvertQuotedMessageOwnFields(discordMsg, discordToSharedMsgID, discordMessages) ==
    IF discordMsg.Reference = Null THEN Null
    ELSE LET referencedDiscordID == discordMsg.Reference[1] IN
         IF referencedDiscordID \in DOMAIN discordToSharedMsgID
         THEN V([ SharedMsgID |-> discordToSharedMsgID[referencedDiscordID],
                  SentAt      |-> ParseRFC3339(discordMsg.Timestamp),
                  Content     |-> discordMsg.Content,
                  IsSent      |-> discordMsg.Author = myUsername ])
         ELSE Null

\* The reply reference: the quote view of a referenced message found in the
\* maps.
ConvertQuotedMessage(discordMsg, discordToSharedMsgID, discordMessages) ==
    IF discordMsg.Reference = Null THEN Null
    ELSE LET referencedDiscordID == discordMsg.Reference[1] IN
         IF referencedDiscordID \in DOMAIN discordToSharedMsgID
            /\ referencedDiscordID \in DOMAIN discordMessages
         THEN LET quotedDiscordMsg == discordMessages[referencedDiscordID] IN
              V([ SharedMsgID |-> discordToSharedMsgID[referencedDiscordID],
                  SentAt      |-> ParseRFC3339(quotedDiscordMsg.Timestamp),
                  Content     |-> quotedDiscordMsg.Content,
                  IsSent      |-> quotedDiscordMsg.Author = myUsername ])
         ELSE Null

\* A reply reference that is dropped when it does not resolve.
ConvertReplyToIDDropsUnresolved(discordMsg, discordToSharedMsgID) ==
    IF discordMsg.Reference = Null THEN Null
    ELSE LET referencedDiscordID == discordMsg.Reference[1] IN
         IF referencedDiscordID \in DOMAIN discordToSharedMsgID
         THEN V(BytesToString(discordToSharedMsgID[referencedDiscordID]))
         ELSE Null

\* replyToID: the token of the referenced message as a string, or the
\* referenced identifier itself when the maps do not hold it.
ConvertReplyToID(discordMsg, discordToSharedMsgID) ==
    IF discordMsg.Reference = Null THEN Null
    ELSE LET referencedDiscordID == discordMsg.Reference[1] IN
         IF referencedDiscordID \in DOMAIN discordToSharedMsgID
         THEN V(BytesToString(discordToSharedMsgID[referencedDiscordID]))
         ELSE V(referencedDiscordID)

ConvertDiscordMessage(discordMsg, discordToSharedMsgID, discordMessages) ==
    [ ID            |-> discordMsg.ID,
      Content       |-> discordMsg.Content,
      Timestamp     |-> ParseRFC3339(discordMsg.Timestamp),
      MessageType   |-> ConvertMessageType(discordMsg.Attachments),
      Attachments   |-> [i \in DOMAIN discordMsg.Attachments |->
                            UniversalAttachment(discordMsg.Attachments[i])],
      Reactions     |-> ConvertReactions(discordMsg.Reactions),
      ReplyToID     |-> ConvertReplyToID(discordMsg, discordToSharedMsgID),
      QuotedMessage |-> ConvertQuotedMessage(discordMsg, discordToSharedMsgID,
                                             discordMessages),
      IsSent        |-> discordMsg.Author = myUsername,
      Reference     |-> discordMsg.Reference ]

\* A conversion that resolves a reply only against the messages before it.
ConvertAllEarlierOnly(msgs) ==
    [k \in DOMAIN msgs |->
        ConvertDiscordMessage(msgs[k],
                              BuildDiscordToSharedMsgID(SubSeq(msgs, 1, k - 1)),
                              BuildDiscordMessages(SubSeq(msgs, 1, k - 1)))]

\* Second pass of main.
ConvertAll(msgs) ==
    [k \in DOMAIN msgs |->
        ConvertDiscordMessage(msgs[k], BuildDiscordToSharedMsgID(msgs),
                              BuildDiscordMessages(msgs))]

(* ----------------------------- database ------------------------------- *)

Tables ==
    {"messages", "chat_items", "chat_item_messages", "msg_deliveries",
     "files", "snd_files", "rcv_files", "chat_item_reactions"}

\* PRAGMA table_info: the ordered column names of a table.
getTableColumns(tableName) ==
    CASE tableName = "messages" ->
           <<"message_id", "connection_id", "chat_msg_event", "shared_msg_id",
             "msg_body", "msg_sent", "shared_msg_id_user", "created_at",
             "updated_at">>
      [] tableName = "chat_items" ->
           <<"chat_item_id", "user_id", "contact_id", "created_by_msg_id",
             "shared_msg_id", "item_content", "item_text", "item_content_tag",
             "item_sent", "item_status", "item_deleted", "item_edited",
             "include_in_history", "user_mention", "show_group_as_sender",
             "via_proxy", "item_ts", "created_at", "updated_at",
             "quoted_shared_msg_id", "quoted_sent_at", "quoted_content",
             "quoted_sent">>
      [] tableName = "chat_item_messages" ->
           <<"chat_item_id", "message_id", "created_at", "updated_at">>
      [] tableName = "msg_deliveries" ->
           <<"msg_delivery_id", "message_id", "connection_id", "agent_msg_id",
             "agent_msg_meta", "agent_ack_cmd_id", "delivery_status",
             "chat_ts", "created_at", "updated_at">>
      [] tableName = "files" ->
           <<"file_id", "contact_id", "group_id", "file_name", "file_path",
             "file_size", "chunk_size", "user_id", "chat_item_id",
             "ci_file_status", "protocol", "file_crypto_key",
             "file_crypto_nonce", "created_at", "updated_at">>
      [] tableName = "snd_files" ->
           <<"file_id", "connection_id", "file_status", "file_inline",
             "last_inline_msg_delivery_id", "created_at", "updated_at">>
      [] tableName = "rcv_files" ->
           <<"file_id", "file_status", "user_approved_relays",
             "rcv_file_inline", "created_at", "updated_at">>
      [] OTHER ->
           <<"chat_item_reaction_id", "shared_msg_id", "contact_id",
             "group_id", "created_by_msg_id", "reaction", "reaction_sent",
             "reaction_ts", "created_at", "updated_at">>

\* Tables whose rows carry SQLite's implicit rowid, which table_info does
\* not list.
HasRowid(tableName) == tableName = "chat_item_messages"

\* SELECT COALESCE(MAX(col), 0) FROM table (NULLs are ignored by MAX).
MaxKey(rows, col) ==
    LET S == {rows[i][col][1] : i \in {j \in DOMAIN rows : rows[j][col] # Null}}
    IN  IF S = {} THEN 0 ELSE MaxOf(S)

\* getTemplateRow: the empty map on an empty table (MAX is NULL), else the
\* listed columns of the first row whose idColumn is maximal.
getTemplateRow(database, tableName, idColumn) ==
    LET rows == database[tableName]
        ids  == {j \in DOMAIN rows : rows[j][idColumn] # Null}
    IN  IF ids = {} THEN EmptyMap
        ELSE LET m == MaxKey(rows, idColumn)
                 i == CHOOSE j \in ids :
                        /\ rows[j][idColumn] = V(m)
                        /\ \A l \in ids : rows[l][idColumn] = V(m) => j <= l
             IN  [c \in Range(getTableColumns(tableName)) |-> rows[i][c]]

\* An INSERT OR REPLACE: a row whose key is already in the table takes the
\* place of the row that holds it.
ExecInsertOrReplace(database, tableName, newRows) ==
    LET key  == getTableColumns(tableName)[1]
        kept == SelectSeq(database[tableName],
                    LAMBDA old : \A k \in DOMAIN newRows :
                                    newRows[k][key] # old[key])
        numbered ==
          [k \in DOMAIN newRows |->
             IF HasRowid(tableName) /\ "rowid" \notin DOMAIN newRows[k]
             THEN newRows[k] @@
                  [rowid |-> V(MaxKey(database[tableName], "rowid") + k)]
             ELSE newRows[k]]
    IN  [database EXCEPT ![tableName] =
            (IF HasRowid(tableName) THEN @ ELSE kept) \o numbered]

\* tx.Exec of an INSERT of `newRows`: the rows are appended; a table with an
\* implicit rowid numbers a row that names none.
ExecInsert(database, tableName, newRows) ==
    LET numbered ==
          IF HasRowid(tableName)
          THEN [k \in DOMAIN newRows |->
                  IF "rowid" \in DOMAIN newRows[k] THEN newRows[k]
                  ELSE newRows[k] @@
                       [rowid |-> V(MaxKey(database[tableName], "rowid") + k)]]
          ELSE newRows
    IN  [database EXCEPT ![tableName] = @ \o numbered]


(* ------------------------ pre-existing databases ---------------------- *)

IntColumns ==
    {"message_id", "connection_id", "msg_sent", "shared_msg_id_user",
     "chat_item_id", "user_id", "contact_id", "created_by_msg_id", "item_sent",
     "item_deleted", "item_edited", "include_in_history", "user_mention",
     "show_group_as_sender", "via_proxy", "quoted_sent", "msg_delivery_id",
     "agent_msg_id", "agent_ack_cmd_id", "file_id", "group_id", "file_size",
     "chunk_size", "file_inline", "last_inline_msg_delivery_id",
     "user_approved_relays", "rcv_file_inline", "chat_item_reaction_id",
     "reaction_sent", "rowid"}

\* The value a pre-existing row holds in a column that is not one of its keys.
SeedValue(col) ==
    CASE col \in IntColumns -> V(1)
      [] col \in {"shared_msg_id", "quoted_shared_msg_id"} -> V(Bytes("old"))
      [] col \in {"created_at", "updated_at", "item_ts", "chat_ts",
                  "quoted_sent_at"} -> V(<<"sql", 50>>)
      [] col = "reaction_ts" -> V(<<"sqlns", 50, 0>>)
      [] col \in {"msg_body", "item_content", "quoted_content", "reaction"} ->
           V(Json([type |-> "text", text |-> "old"]))
      [] col \in {"file_name", "file_path"} ->
           V([base |-> "old", ext |-> ".bin", len |-> 7])
      [] OTHER -> V("old")

SeedRow(tableName, keys) ==
    [c \in Range(getTableColumns(tableName)) \cup DOMAIN keys |->
        IF c \in DOMAIN keys THEN V(keys[c]) ELSE SeedValue(c)]

EmptyDB == [t \in Tables |-> <<>>]

\* A database in use: one row per table, each table with its own key range.
SeedDB ==
    [ messages            |-> <<SeedRow("messages", [message_id |-> 3])>>,
      chat_items          |-> <<SeedRow("chat_items",
                                  [chat_item_id |-> 5, created_by_msg_id |-> 3])>>,
      chat_item_messages  |-> <<SeedRow("chat_item_messages",
                                  [rowid |-> 2, chat_item_id |-> 5, message_id |-> 3])>>,
      msg_deliveries      |-> <<SeedRow("msg_deliveries",
                                  [msg_delivery_id |-> 3, message_id |-> 3,
                                   agent_msg_id |-> 7])>>,
      files               |-> <<SeedRow("files", [file_id |-> 4, chat_item_id |-> 5])>>,
      snd_files           |-> <<SeedRow("snd_files",
                                  [file_id |-> 4, last_inline_msg_delivery_id |-> 6])>>,
      rcv_files           |-> <<SeedRow("rcv_files", [file_id |-> 4])>>,
      chat_item_reactions |-> <<SeedRow("chat_item_reactions",
                                  [chat_item_reaction_id |-> 8])>> ]

\* The same database after its last message was delivered over a second
\* connection: msg_deliveries holds more rows than messages.
GroupDB ==
    [SeedDB EXCEPT !.msg_deliveries =
        @ \o <<SeedRow("msg_deliveries",
                 [msg_delivery_id |-> 4, message_id |-> 3, agent_msg_id |-> 8])>>]

Databases == {EmptyDB, SeedDB, GroupDB}

(* ---------------------------- synthesis ------------------------------- *)

\* A row builder that lets the template win over the overrides.
BuildRowTemplateFirst(columns, overrideFields, templateRow) ==
    [c \in Range(columns) |->
        IF DOMAIN templateRow # {} /\ c \in DOMAIN templateRow
        THEN templateRow[c]
        ELSE IF c \in DOMAIN overrideFields THEN overrideFields[c] ELSE Null]

\* The row of a table: override wins, then the template, then NULL.
BuildRow(columns, overrideFields, templateRow) ==
    [c \in Range(columns) |->
        IF c \in DOMAIN overrideFields THEN overrideFields[c]
        ELSE IF DOMAIN templateRow # {}
             THEN (IF c \in DOMAIN templateRow THEN templateRow[c] ELSE Null)
             ELSE Null]

\* A chunk size rounded up instead of down.
calculateChunkSizeRoundedUp(numColumns, maxParams) ==
    LET mp == IF maxParams <= 0 THEN 900 ELSE maxParams
    IN  mp \div numColumns + 1

\* calculateChunkSize(numColumns, maxParams)
calculateChunkSize(numColumns, maxParams) ==
    LET mp        == IF maxParams <= 0 THEN 900 ELSE maxParams
        chunkSize == mp \div numColumns
    IN  IF chunkSize < 1 THEN 1 ELSE chunkSize

\* The chunk loop of the bulk inserts: items[i:end] for i = 0, chunkSize, ...
RECURSIVE ChunksFrom(_, _, _)
ChunksFrom(items, chunkSize, i) ==
    IF i >= Len(items) THEN <<>>
    ELSE LET end == Min(i + chunkSize, Len(items))
         IN  <<[i |-> i, end |-> end, chunk |-> SubSeq(items, i + 1, end)]>>
             \o ChunksFrom(items, chunkSize, i + chunkSize)

Chunks(items, chunkSize) == ChunksFrom(items, chunkSize, 0)

FileDescr ==
    [fileDescrComplete |-> FALSE, fileDescrPartNo |-> 0, fileDescrText |-> ""]

FileInfo(attachment) ==
    [fileDescr |-> FileDescr, fileName |-> attachment.Filename,
     fileSize |-> attachment.Size]

\* msgContent of a message; mediaOk tells whether encodeImageToBase64 or
\* generateVideoThumbnail succeeded.
MsgContent(msg, mediaOk) ==
    IF Len(msg.Attachments) > 0
    THEN LET attachment == msg.Attachments[1] IN
         CASE msg.MessageType = "image" ->
                IF mediaOk
                THEN [type |-> "image", text |-> msg.Content,
                      image |-> Base64(attachment.URL)]
                ELSE [type |-> "text",
                      text |-> <<"[Image: ", attachment.Filename, "]", msg.Content>>]
           [] msg.MessageType = "video" ->
                IF mediaOk
                THEN [type |-> "video", text |-> msg.Content,
                      image |-> Base64(<<"thumb", attachment.URL>>),
                      duration |-> 1]
                ELSE [type |-> "file", text |-> msg.Content]
           [] OTHER -> [type |-> "file", text |-> msg.Content]
    ELSE [type |-> "text", text |-> msg.Content]

\* fileInfo of the messages payload: absent for a message without attachment
\* and for an image that could not be encoded.
HasFileInfo(msg, mediaOk) ==
    /\ Len(msg.Attachments) > 0
    /\ (msg.MessageType = "image" => mediaOk)

QuoteParam(q) ==
    [ content |-> [text |-> q.Content, type |-> "text"],
      msgRef  |-> [msgId  |-> Base64(q.SharedMsgID),
                   sent   |-> FALSE,
                   sentAt |-> FormatRFC3339(q.SentAt)] ]

MsgParams(msg, mediaOk) ==
    [content |-> MsgContent(msg, mediaOk)]
    @@ (IF HasFileInfo(msg, mediaOk)
        THEN [file |-> FileInfo(msg.Attachments[1])] ELSE EmptyMap)
    @@ (IF msg.QuotedMessage # Null
        THEN [quote |-> QuoteParam(msg.QuotedMessage[1])] ELSE EmptyMap)

MsgBody(msg, mediaOk) ==
    Json([v |-> "1-14", msgId |-> Base64(Bytes(msg.ID)), event |-> "x.msg.new",
          params |-> MsgParams(msg, mediaOk)])

MessagesOverride(msgData, mediaOk) ==
    LET msg == msgData.Message IN
    [ message_id         |-> V(msgData.MessageID),
      chat_msg_event     |-> V("x.msg.new"),
      shared_msg_id      |-> V(msgData.SharedMsgID),
      msg_body           |-> V(MsgBody(msg, mediaOk)),
      msg_sent           |-> V(IF msg.IsSent THEN 1 ELSE 0),
      created_at         |-> V(FormatSQL(msg.Timestamp)),
      updated_at         |-> V(FormatSQL(msg.Timestamp)),
      shared_msg_id_user |-> IF msg.IsSent THEN V(1) ELSE Null ]

\* Quote overrides that say nothing for a message without quote.
QuoteOverrideOnlyWhenQuoted(msg) ==
    IF msg.QuotedMessage # Null
    THEN LET q == msg.QuotedMessage[1] IN
         [ quoted_shared_msg_id |-> V(q.SharedMsgID),
           quoted_sent_at       |-> V(FormatSQL(q.SentAt)),
           quoted_content       |-> V(Json([type |-> "text", text |-> q.Content])),
           quoted_sent          |-> V(IF q.IsSent THEN 1 ELSE 0) ]
    ELSE EmptyMap

\* The quote columns of a chat_items row: set from the quote view, or set
\* to NULL when there is none.
QuoteOverride(msg) ==
    IF msg.QuotedMessage # Null
    THEN LET q == msg.QuotedMessage[1] IN
         [ quoted_shared_msg_id |-> V(q.SharedMsgID),
           quoted_sent_at       |-> V(FormatSQL(q.SentAt)),
           quoted_content       |-> V(Json([type |-> "text", text |-> q.Content])),
           quoted_sent          |-> V(IF q.IsSent THEN 1 ELSE 0) ]
    ELSE [ quoted_shared_msg_id |-> Null, quoted_sent_at |-> Null,
           quoted_content |-> Null, quoted_sent |-> Null ]

ChatItemsOverride(msgData, mediaOk, contactID) ==
    LET msg == msgData.Message
        itemContentTag == IF msg.IsSent THEN "sndMsgContent" ELSE "rcvMsgContent"
    IN
    [ chat_item_id         |-> V(msgData.ChatItemID),
      user_id              |-> V(1),
      contact_id           |-> V(contactID),
      created_by_msg_id    |-> V(msgData.MessageID),
      shared_msg_id        |-> V(msgData.SharedMsgID),
      item_content         |-> V(Json([tag |-> itemContentTag,
                                       msgContent |-> MsgContent(msg, mediaOk)])),
      item_text            |-> V(msg.Content),
      item_content_tag     |-> V(itemContentTag),
      item_sent            |-> V(IF msg.IsSent THEN 1 ELSE 0),
      item_status          |-> V(IF msg.IsSent THEN "snd_rcvd ok complete"
                                                ELSE "rcv_read"),
      item_deleted         |-> V(0),
      item_edited          |-> V(0),
      include_in_history   |-> V(1),
      user_mention         |-> V(0),
      show_group_as_sender |-> V(0),
      item_ts              |-> V(FormatSQL(msg.Timestamp)),
      created_at           |-> V(FormatSQL(msg.Timestamp)),
      updated_at           |-> V(FormatSQL(msg.Timestamp)) ]
    @@ QuoteOverride(msg)

\* A link row that takes the row number for the message key.
ChatItemMessagesOverrideRowIDAsKey(msgData, nextRowID, ij) ==
    [ rowid        |-> V(nextRowID + ij),
      chat_item_id |-> V(msgData.ChatItemID),
      message_id   |-> V(nextRowID + ij),
      created_at   |-> V(FormatSQL(msgData.Message.Timestamp)),
      updated_at   |-> V(FormatSQL(msgData.Message.Timestamp)) ]

\* i + j is the index of the row in the batch, counted from 0.
ChatItemMessagesOverride(msgData, nextRowID, ij) ==
    [ rowid        |-> V(nextRowID + ij),
      chat_item_id |-> V(msgData.ChatItemID),
      message_id   |-> V(msgData.MessageID),
      created_at   |-> V(FormatSQL(msgData.Message.Timestamp)),
      updated_at   |-> V(FormatSQL(msgData.Message.Timestamp)) ]

MsgDeliveriesOverride(msgData, maxAgentMsgID, ij) ==
    [ msg_delivery_id |-> V(msgData.MessageID),
      message_id      |-> V(msgData.MessageID),
      connection_id   |-> V(1),
      agent_msg_id    |-> V(maxAgentMsgID + 1 + ij),
      agent_msg_meta  |-> Null,
      delivery_status |-> V(IF msgData.Message.IsSent THEN "snd_rcvd ok"
                                                      ELSE "rcv_read"),
      chat_ts         |-> V(FormatSQL(msgData.Message.Timestamp)),
      created_at      |-> V(FormatSQL(msgData.Message.Timestamp)),
      updated_at      |-> V(FormatSQL(msgData.Message.Timestamp)) ]


(* ---------------------------- attachments ----------------------------- *)

\* The contact the messages are imported to (getContactIDByName).
contactID == 2

\* Names longer than 200 characters keep their first 200 - len(ext)
\* characters and the extension.
TruncateFilename(filename) ==
    IF filename.len > MaxNameLen
    THEN [base |-> <<"prefix", MaxNameLen, filename.base>>,
          ext |-> filename.ext, len |-> MaxNameLen]
    ELSE filename

\* copyFileToSimplexDir: the file is created (or overwritten) under its
\* truncated name.
copyFileToSimplexDir(dir, attachment) ==
    LET name == TruncateFilename(attachment.Filename)
    IN  [n \in DOMAIN dir \cup {name} |->
            IF n = name THEN attachment.URL ELSE dir[n]]

FileStatus(isSent, messageType) ==
    IF messageType = "video" THEN "snd_stored"
    ELSE IF isSent THEN "snd_complete" ELSE "rcv_complete"

FileProtocol(messageType) ==
    IF messageType = "video" THEN "local"
    ELSE IF messageType \in {"image", "voice"} THEN "xftp" ELSE "smp"

FilesOverride(attachment, nextFileID, chatItemID, isSent, messageType) ==
    LET truncatedFilename == TruncateFilename(attachment.Filename) IN
    [ file_id           |-> V(nextFileID),
      contact_id        |-> V(contactID),
      file_name         |-> V(truncatedFilename),
      file_path         |-> V(truncatedFilename),
      file_size         |-> V(attachment.Size),
      chunk_size        |-> V(FileChunkSize),
      user_id           |-> V(1),
      chat_item_id      |-> V(chatItemID),
      ci_file_status    |-> V(FileStatus(isSent, messageType)),
      protocol          |-> V(FileProtocol(messageType)),
      created_at        |-> V(NowSQL),
      updated_at        |-> V(NowSQL),
      file_crypto_key   |-> Null,
      file_crypto_nonce |-> Null ]

SndFilesOverride(fileID, nextDeliveryID) ==
    [ file_id                     |-> V(fileID),
      connection_id               |-> V(1),
      file_status                 |-> V("complete"),
      last_inline_msg_delivery_id |-> V(nextDeliveryID),
      created_at                  |-> V(NowSQL),
      updated_at                  |-> V(NowSQL) ]

RcvFilesOverride(fileID) ==
    [ file_id              |-> V(fileID),
      file_status          |-> V("complete"),
      user_approved_relays |-> V(0),
      created_at           |-> V(NowSQL),
      updated_at           |-> V(NowSQL) ]

\* One executed INSERT of one row, as the write log records it.
Written(tableName, row, templateRow, overrideFields) ==
    [table |-> tableName, row |-> row, template |-> templateRow,
     override |-> overrideFields]

\* A query for the highest key of a column, and the number of rows the
\* table held when it ran.
KeyRead(w, tableName, col) ==
    [table |-> tableName, column |-> col, seen |-> Len(w.db[tableName])]

\* The state a batch works on: the transaction's view of the database, the
\* log of the rows written, the SimpleX files directory, and the key
\* queries run.
Work(database, log, dir) ==
    [db |-> database, log |-> log, dir |-> dir, reads |-> <<>>]

\* Builds a row of `tableName` from the template sampled in w.db and writes it.
InsertOne(w, tableName, idColumn, overrideFields) ==
    LET templateRow == getTemplateRow(w.db, tableName, idColumn)
        row == BuildRow(getTableColumns(tableName), overrideFields, templateRow)
    IN  [w EXCEPT !.db  = ExecInsert(w.db, tableName, <<row>>),
                  !.log = Append(w.log,
                            Written(tableName, row, templateRow, overrideFields))]

insertSndFile(w, fileID) ==
    InsertOne([w EXCEPT !.reads = Append(@,
                   KeyRead(w, "snd_files", "last_inline_msg_delivery_id"))],
              "snd_files", "file_id",
              SndFilesOverride(fileID,
                  MaxKey(w.db["snd_files"], "last_inline_msg_delivery_id") + 1))

insertRcvFile(w, fileID) ==
    InsertOne(w, "rcv_files", "file_id", RcvFilesOverride(fileID))

\* What can happen in insertFileAttachment, in the order of its steps: the
\* source file is missing; a template, key or column query fails; the copy
\* fails; the INSERT into files fails; the transfer row fails; success.
AttachOutcomes(messageType) ==
    {"ok", "stat_err", "schema_err", "copy_err", "files_exec_err"}
    \cup (IF messageType # "video" THEN {"xfer_err"} ELSE {})

\* insertFileAttachment: returns the work state and the error ("" for nil).
insertFileAttachment(w, attachment, chatItemID, isSent, messageType, outcome) ==
    IF outcome \in {"stat_err", "schema_err", "copy_err"}
    THEN [w |-> w, err |-> outcome]
    ELSE
    LET nextFileID == MaxKey(w.db["files"], "file_id") + 1
        copied == [w EXCEPT !.dir = copyFileToSimplexDir(w.dir, attachment),
                            !.reads = Append(@, KeyRead(w, "files", "file_id"))]
    IN  IF outcome = "files_exec_err"
        THEN [w |-> copied, err |-> outcome]
        ELSE
        LET withFile == InsertOne(copied, "files", "file_id",
                            FilesOverride(attachment, nextFileID, chatItemID,
                                          isSent, messageType))
        IN  IF messageType = "video"
            THEN [w |-> withFile, err |-> ""]
            ELSE IF outcome = "xfer_err"
            THEN [w |-> withFile, err |-> outcome]
            ELSE [w |-> IF isSent THEN insertSndFile(withFile, nextFileID)
                                  ELSE insertRcvFile(withFile, nextFileID),
                  err |-> ""]


(* ---------------------------- bulk inserts ---------------------------- *)

RECURSIVE Flatten(_)
Flatten(ss) == IF Len(ss) = 0 THEN <<>> ELSE Head(ss) \o Flatten(Tail(ss))

\* How a bulk insert can end: no error, a failed template, column or key
\* query before the first row, or a failed Exec of chunk number `at`.
NoFailure == [err |-> "", at |-> 0]

Failures(nChunks) ==
    {NoFailure, [err |-> "schema_err", at |-> 0]}
    \cup {[err |-> "exec_err", at |-> c] : c \in 1..nChunks}

\* The chunks a bulk insert of `tableName` splits the batch into.
TableChunks(data, tableName) ==
    Chunks(data.Messages,
           calculateChunkSize(Len(getTableColumns(tableName)), MaxParams))

\* Executes the INSERT statements of the chunks before the failing one.
\* entries[c][j] is the row j of chunk c with its template and overrides.
ExecChunks(w, tableName, entries, fail) ==
    LET nOk  == IF fail.err = "" THEN Len(entries) ELSE fail.at - 1
        done == Flatten(SubSeq(entries, 1, nOk))
    IN  [w EXCEPT
           !.db  = ExecInsert(w.db, tableName, [k \in DOMAIN done |-> done[k].row]),
           !.log = @ \o done]

\* The rows of a bulk insert, chunk by chunk; override(msgData, ij) gives the
\* overrides of the row at index ij (from 0) of the batch.
ChunkEntries(w, data, tableName, idColumn, override(_, _)) ==
    LET templateRow == getTemplateRow(w.db, tableName, idColumn)
        columns     == getTableColumns(tableName)
        chunks      == TableChunks(data, tableName)
    IN  [c \in DOMAIN chunks |->
          [j \in DOMAIN chunks[c].chunk |->
             LET ov == override(chunks[c].chunk[j], chunks[c].i + j - 1)
             IN  Written(tableName, BuildRow(columns, ov, templateRow),
                         templateRow, ov)]]

\* bulkInsertMessages; mediaOk[k] is the outcome of encoding the media of
\* message k of the batch.
bulkInsertMessages(w, data, mediaOk, fail) ==
    IF fail.err = "schema_err" THEN [w |-> w, err |-> fail.err]
    ELSE LET Ov(msgData, ij) == MessagesOverride(msgData, mediaOk[ij + 1])
         IN  [w   |-> ExecChunks(w, "messages",
                         ChunkEntries(w, data, "messages", "message_id", Ov), fail),
              err |-> fail.err]

\* The attachment step of the rows of one chunk: the first attachment of
\* every message that has one is inserted; an error is logged and dropped.
RECURSIVE AttachChunk(_, _, _, _)
AttachChunk(acc, chunk, outcomes, j) ==
    IF j > Len(chunk.chunk) THEN acc
    ELSE LET msgData == chunk.chunk[j]
             msg     == msgData.Message
         IN  IF Len(msg.Attachments) = 0
             THEN AttachChunk(acc, chunk, outcomes, j + 1)
             ELSE LET r == insertFileAttachment(acc.w, msg.Attachments[1],
                               msgData.ChatItemID, msg.IsSent, msg.MessageType,
                               outcomes[chunk.i + j])
                  IN  AttachChunk(
                        [w |-> r.w,
                         warnings |-> IF r.err = "" THEN acc.warnings
                                      ELSE Append(acc.warnings,
                                               [id |-> msg.ID, err |-> r.err])],
                        chunk, outcomes, j + 1)

\* The chunk loop of bulkInsertChatItems from chunk c on: the attachments
\* of the chunk's messages are handled while its rows are built, then the
\* chunk is inserted.
RECURSIVE ChatItemChunks(_, _, _, _, _, _)
ChatItemChunks(acc, chunks, entries, outcomes, fail, c) ==
    IF c > Len(chunks) THEN acc
    ELSE LET attached == AttachChunk(acc, chunks[c], outcomes, 1)
         IN  IF fail.err = "exec_err" /\ fail.at = c THEN attached
             ELSE ChatItemChunks(
                    [attached EXCEPT
                       !.w.db  = ExecInsert(@, "chat_items",
                                   [k \in DOMAIN entries[c] |-> entries[c][k].row]),
                       !.w.log = @ \o entries[c]],
                    chunks, entries, outcomes, fail, c + 1)

bulkInsertChatItems(w, data, outcomes, mediaOk, fail) ==
    IF fail.err = "schema_err" THEN [w |-> w, warnings |-> <<>>, err |-> fail.err]
    ELSE LET Ov(msgData, ij) == ChatItemsOverride(msgData, mediaOk[ij + 1], contactID)
             r == ChatItemChunks([w |-> w, warnings |-> <<>>],
                      TableChunks(data, "chat_items"),
                      ChunkEntries(w, data, "chat_items", "chat_item_id", Ov),
                      outcomes, fail, 1)
         IN  [w |-> r.w, warnings |-> r.warnings, err |-> fail.err]

bulkInsertChatItemMessages(w, data, fail) ==
    IF fail.err = "schema_err" THEN [w |-> w, err |-> fail.err]
    ELSE LET nextRowID == MaxKey(w.db["chat_item_messages"], "rowid") + 1
             Ov(msgData, ij) == ChatItemMessagesOverride(msgData, nextRowID, ij)
         IN  [w   |-> ExecChunks([w EXCEPT !.reads = Append(@,
                             KeyRead(w, "chat_item_messages", "rowid"))],
                         "chat_item_messages",
                         ChunkEntries(w, data, "chat_item_messages", "rowid", Ov),
                         fail),
              err |-> fail.err]

bulkInsertMsgDeliveries(w, data, fail) ==
    IF fail.err = "schema_err" THEN [w |-> w, err |-> fail.err]
    ELSE LET maxAgentMsgID == MaxKey(w.db["msg_deliveries"], "agent_msg_id")
             Ov(msgData, ij) == MsgDeliveriesOverride(msgData, maxAgentMsgID, ij)
         IN  [w   |-> ExecChunks([w EXCEPT !.reads = Append(@,
                             KeyRead(w, "msg_deliveries", "agent_msg_id"))],
                         "msg_deliveries",
                         ChunkEntries(w, data, "msg_deliveries", "msg_delivery_id", Ov),
                         fail),
              err |-> fail.err]

(* ------------------------------ reactions ----------------------------- *)

\* A normalization that keeps the variation selectors.
normalizeEmojiKeepsSelectors(emoji) == emoji

\* normalizeEmojiForSimpleX: the variation selectors are dropped.
normalizeEmojiForSimpleX(emoji) ==
    SelectSeq(emoji, LAMBDA r : r \notin {"FE0E", "FE0F"})

\* The reactions of the batch in the order the loops visit them.
RECURSIVE BatchReactions(_)
BatchReactions(msgs) ==
    IF Len(msgs) = 0 THEN <<>>
    ELSE [r \in DOMAIN Head(msgs).Message.Reactions |->
            [msgData |-> Head(msgs),
             emoji   |-> Head(msgs).Message.Reactions[r].Emoji]]
         \o BatchReactions(Tail(msgs))

\* The row of one reaction: the nine columns the INSERT names; the columns
\* it does not name take the table's default.
ReactionRow(msgData, emoji, reactionID) ==
    LET msg == msgData.Message
        named ==
          [ chat_item_reaction_id |-> V(reactionID),
            shared_msg_id         |-> V(msgData.SharedMsgID),
            contact_id            |-> V(contactID),
            created_by_msg_id     |-> Null,
            reaction              |-> V(Json([type |-> "emoji",
                                       emoji |-> normalizeEmojiForSimpleX(emoji)])),
            reaction_sent         |-> V(IF msg.IsSent THEN 0 ELSE 1),
            reaction_ts           |-> V(FormatSQLNanos(msg.Timestamp)),
            created_at            |-> V(FormatSQL(msg.Timestamp)),
            updated_at            |-> V(FormatSQL(msg.Timestamp)) ]
    IN  Written("chat_item_reactions",
                BuildRow(getTableColumns("chat_item_reactions"), named, EmptyMap),
                EmptyMap, named)

\* bulkInsertReactions: one INSERT per reaction, numbered from the key read
\* once; fail.at is the number of the INSERT that fails.
bulkInsertReactions(w, data, fail) ==
    IF fail.err = "schema_err" THEN [w |-> w, err |-> fail.err]
    ELSE LET nextReactionID ==
                 MaxKey(w.db["chat_item_reactions"], "chat_item_reaction_id") + 1
             all  == BatchReactions(data.Messages)
             nOk  == IF fail.err = "" THEN Len(all) ELSE fail.at - 1
             done == [k \in 1..nOk |->
                        ReactionRow(all[k].msgData, all[k].emoji,
                                    nextReactionID + k - 1)]
         IN  [w   |-> [w EXCEPT
                         !.db  = ExecInsert(w.db, "chat_item_reactions",
                                            [k \in DOMAIN done |-> done[k].row]),
                         !.log = @ \o done,
                         !.reads = Append(@, KeyRead(w, "chat_item_reactions",
                                                     "chat_item_reaction_id"))],
              err |-> fail.err]


(* ------------------------------- state -------------------------------- *)

VARIABLES
    export,             \* export.Messages, the Discord messages loaded
    db0,                \* the database as it was when the run started
    db,                 \* the committed database
    tx,                 \* the database as the open transaction sees it
    dir,                \* the SimpleX files directory: name -> content
    pc,                 \* where main is
    i,                  \* main's batch loop variable
    startMessageID,     \* MAX(message_id) + 1 read once by main
    universalMessages,  \* the converted messages
    bulkData,           \* BulkInsertData of the batch in progress
    dbAtBegin,          \* the committed database when the batch began
    log,                \* the rows written by the batch, in order of writing
    warnings,           \* attachment errors logged and dropped by the batch
    mediaWarnings,      \* media encoder errors logged and dropped by the batch
    committedIds,       \* identifiers of the messages of committed batches
    lastError,          \* the error main died of
    zip,                \* the output ZIP: <<>> or <<database, directory>>
    dbOpen,             \* whether the database connection is open
    keyReads,           \* the key queries the batch has run, in order
    chunkIn,            \* chunking specification: column count and rows
    chunkOut,           \* chunking specification: the statements issued
    schemaIn,           \* introspection specification: the table asked for
    schemaOut           \* introspection specification: what the call returned

mainVars ==
    <<export, db0, db, tx, dir, pc, i, startMessageID, universalMessages,
      bulkData, dbAtBegin, log, warnings, mediaWarnings, committedIds,
      lastError, zip, dbOpen, keyReads>>

chunkVars == <<chunkIn, chunkOut>>

schemaVars == <<schemaIn, schemaOut>>

vars == <<mainVars, chunkVars, schemaVars>>

NoError == [step |-> "", err |-> ""]

NoSchemaCall == [tableName |-> "", present |-> TRUE, queryOk |-> TRUE]

NoSchemaResult == [columns |-> <<>>, err |-> "", chunkSize |-> 0]

NoData == [Messages |-> <<>>]

BatchSteps ==
    {"begin", "messages", "chat_items", "chat_item_messages",
     "msg_deliveries", "reactions", "commit"}

Init ==
    /\ export \in Exports
    /\ db0 \in Databases
    /\ db = db0
    /\ tx = db0
    /\ dir = EmptyMap
    /\ pc = "start"
    /\ i = 0
    /\ startMessageID = 0
    /\ universalMessages = <<>>
    /\ bulkData = NoData
    /\ dbAtBegin = db0
    /\ log = <<>>
    /\ warnings = <<>>
    /\ mediaWarnings = <<>>
    /\ committedIds = {}
    /\ lastError = NoError
    /\ zip = <<>>
    /\ dbOpen = TRUE
    /\ keyReads = <<>>
    /\ chunkIn = [numColumns |-> 1, rows |-> <<>>]
    /\ chunkOut = <<>>
    /\ schemaIn = NoSchemaCall
    /\ schemaOut = NoSchemaResult

\* A rollback that keeps what the transaction wrote.
RollbackKeepsWrites(committed, working) == working

\* A rollback that goes back to the database of the start of the run.
RollbackToRunStart(committed, working) == db0

\* defer tx.Rollback(): the transaction's writes are dropped.
Rollback(committed, working) == committed

\* tx.Commit()
Commit(committed, working) == working

\* An error that is logged while main goes on to close the database and
\* write the output.
FatalLogsOnly(step, err) ==
    /\ pc' = "close"
    /\ lastError' = [step |-> step, err |-> err]

\* log.Fatalf in main: the process exits.
Fatal(step, err) ==
    /\ pc' = "fatal"
    /\ lastError' = [step |-> step, err |-> err]

\* A step of bulkInsertUniversalMessages returned an error: the deferred
\* rollback runs and main dies.
AbortBatch(step, err, working) ==
    /\ db' = Rollback(db, working)
    /\ tx' = db'
    /\ Fatal(step, err)

\* main up to the batch loop: the starting message_id is read and the
\* export is converted in two passes.
Prepare ==
    /\ pc = "start"
    /\ \E ok \in BOOLEAN :
         IF ok
         THEN /\ startMessageID' = MaxKey(db["messages"], "message_id") + 1
              /\ universalMessages' = ConvertAll(export)
              /\ pc' = IF Len(export) > 0 THEN "begin" ELSE "close"
              /\ UNCHANGED lastError
         ELSE /\ Fatal("start", "schema_err")
              /\ UNCHANGED <<startMessageID, universalMessages>>
    /\ UNCHANGED <<export, db0, db, tx, dir, i, bulkData, dbAtBegin, log,
                   warnings, mediaWarnings, committedIds, zip, dbOpen,
                   keyReads, chunkVars, schemaVars>>

\* Batch data whose tokens are numbered by the position in the batch.
PrepareBulkDataTokenByPosition(messages, batchStartID, maxChatItemID) ==
    [Messages |->
        [k \in DOMAIN messages |->
            [ MessageID   |-> batchStartID + (k - 1),
              ChatItemID  |-> maxChatItemID + 1 + (k - 1),
              SharedMsgID |-> Bytes(MsgIds[k]),
              Message     |-> messages[k] ]]]

\* The rows of bulkData.Messages for the batch universalMessages[i:end].
PrepareBulkData(messages, batchStartID, maxChatItemID) ==
    [Messages |->
        [k \in DOMAIN messages |->
            [ MessageID   |-> batchStartID + (k - 1),
              ChatItemID  |-> maxChatItemID + 1 + (k - 1),
              SharedMsgID |-> Bytes(messages[k].ID),
              Message     |-> messages[k] ]]]

\* A batch slice whose end stops one short of the last message.
BatchEndOffByOne(messages, from) ==
    SubSeq(messages, from + 1, Min(from + batchSize, Len(messages) - 1))

Batch(messages, from) ==
    SubSeq(messages, from + 1, Min(from + batchSize, Len(messages)))

\* bulkInsertUniversalMessages up to the first insert: the transaction
\* begins, MAX(chat_item_id) is read, the keys of the batch are assigned.
BeginBatch ==
    /\ pc = "begin"
    /\ dbAtBegin' = db
    /\ log' = <<>>
    /\ warnings' = <<>>
    /\ mediaWarnings' = <<>>
    /\ \E ok \in BOOLEAN :
         IF ok
         THEN /\ tx' = db
              /\ bulkData' = PrepareBulkData(Batch(universalMessages, i),
                                 startMessageID + i,
                                 MaxKey(db["chat_items"], "chat_item_id"))
              /\ keyReads' = <<KeyRead(Work(db, <<>>, dir), "chat_items",
                                        "chat_item_id")>>
              /\ pc' = "messages"
              /\ UNCHANGED <<db, lastError>>
         ELSE /\ AbortBatch("begin", "schema_err", db)
              /\ keyReads' = <<>>
              /\ UNCHANGED bulkData
    /\ UNCHANGED <<export, db0, dir, i, startMessageID, universalMessages,
                   committedIds, zip, dbOpen, chunkVars, schemaVars>>

NeedsMedia(msg) ==
    Len(msg.Attachments) > 0 /\ msg.MessageType \in {"image", "video"}

\* The outcomes of the media encoders for the messages of the batch.
MediaChoices(data) ==
    {f \in [DOMAIN data.Messages -> BOOLEAN] :
        \A k \in DOMAIN data.Messages : ~NeedsMedia(data.Messages[k].Message) => f[k]}

\* The encoder errors a bulk insert logs while it builds its rows: those of
\* the messages of the chunks built before the insert returned.
MediaWarnings(data, tableName, mediaOk, fail) ==
    LET chunks == TableChunks(data, tableName)
        nBuilt == IF fail.err = "" THEN Len(chunks) ELSE fail.at
        built  == Flatten([c \in 1..nBuilt |->
                     [j \in DOMAIN chunks[c].chunk |-> chunks[c].i + j]])
        failed == SelectSeq(built, LAMBDA k : ~mediaOk[k])
    IN  [n \in DOMAIN failed |->
           [id |-> data.Messages[failed[n]].Message.ID, step |-> tableName]]

\* The outcomes of insertFileAttachment for the messages of the batch.
AttachChoices(data) ==
    {f \in [DOMAIN data.Messages -> AttachOutcomes("image") \cup {"none"}] :
        \A k \in DOMAIN data.Messages :
            LET msg == data.Messages[k].Message
            IN  f[k] \in (IF Len(msg.Attachments) = 0 THEN {"none"}
                          ELSE AttachOutcomes(msg.MessageType))}

\* What every step of a batch does with the result of its insert.
StepDone(step, next, r) ==
    /\ dir' = r.w.dir
    /\ log' = r.w.log
    /\ keyReads' = keyReads \o r.w.reads
    /\ IF r.err = ""
       THEN /\ tx' = r.w.db
            /\ pc' = next
            /\ UNCHANGED <<db, lastError>>
       ELSE AbortBatch(step, r.err, r.w.db)

InsertMessages ==
    /\ pc = "messages"
    /\ \E mediaOk \in MediaChoices(bulkData),
          fail \in Failures(Len(TableChunks(bulkData, "messages"))) :
         /\ StepDone("messages", "chat_items",
                     bulkInsertMessages(Work(tx, log, dir), bulkData, mediaOk, fail))
         /\ mediaWarnings' = mediaWarnings \o
                MediaWarnings(bulkData, "messages", mediaOk, fail)
    /\ UNCHANGED <<export, db0, i, startMessageID, universalMessages, bulkData,
                   dbAtBegin, warnings, committedIds, zip, dbOpen, chunkVars,
                   schemaVars>>

InsertChatItems ==
    /\ pc = "chat_items"
    /\ \E outcomes \in AttachChoices(bulkData),
          mediaOk \in MediaChoices(bulkData),
          fail \in Failures(Len(TableChunks(bulkData, "chat_items"))) :
         LET r == bulkInsertChatItems(Work(tx, log, dir), bulkData, outcomes,
                                      mediaOk, fail)
         IN  /\ StepDone("chat_items", "chat_item_messages", r)
             /\ warnings' = r.warnings
             /\ mediaWarnings' = mediaWarnings \o
                    MediaWarnings(bulkData, "chat_items", mediaOk, fail)
    /\ UNCHANGED <<export, db0, i, startMessageID, universalMessages, bulkData,
                   dbAtBegin, committedIds, zip, dbOpen, chunkVars,
                   schemaVars>>

InsertChatItemMessages ==
    /\ pc = "chat_item_messages"
    /\ \E fail \in Failures(Len(TableChunks(bulkData, "chat_item_messages"))) :
         StepDone("chat_item_messages", "msg_deliveries",
                  bulkInsertChatItemMessages(Work(tx, log, dir), bulkData, fail))
    /\ UNCHANGED <<export, db0, i, startMessageID, universalMessages, bulkData,
                   dbAtBegin, warnings, mediaWarnings, committedIds, zip, dbOpen,
                   chunkVars, schemaVars>>

InsertMsgDeliveries ==
    /\ pc = "msg_deliveries"
    /\ \E fail \in Failures(Len(TableChunks(bulkData, "msg_deliveries"))) :
         StepDone("msg_deliveries", "reactions",
                  bulkInsertMsgDeliveries(Work(tx, log, dir), bulkData, fail))
    /\ UNCHANGED <<export, db0, i, startMessageID, universalMessages, bulkData,
                   dbAtBegin, warnings, mediaWarnings, committedIds, zip, dbOpen,
                   chunkVars, schemaVars>>

InsertReactions ==
    /\ pc = "reactions"
    /\ \E fail \in Failures(Len(BatchReactions(bulkData.Messages))) :
         StepDone("reactions", "commit",
                  bulkInsertReactions(Work(tx, log, dir), bulkData, fail))
    /\ UNCHANGED <<export, db0, i, startMessageID, universalMessages, bulkData,
                   dbAtBegin, warnings, mediaWarnings, committedIds, zip, dbOpen,
                   chunkVars, schemaVars>>

\* tx.Commit(), the return to main and the step of its batch loop.
CommitBatch ==
    /\ pc = "commit"
    /\ \E ok \in BOOLEAN :
         IF ok
         THEN /\ db' = Commit(db, tx)
              /\ tx' = db'
              /\ committedIds' = committedIds
                    \cup {bulkData.Messages[k].Message.ID : k \in DOMAIN bulkData.Messages}
              /\ i' = i + batchSize
              /\ pc' = IF i' < Len(universalMessages) THEN "begin" ELSE "close"
              /\ UNCHANGED lastError
         ELSE /\ AbortBatch("commit", "commit_err", tx)
              /\ UNCHANGED <<i, committedIds>>
    /\ UNCHANGED <<export, db0, dir, startMessageID, universalMessages,
                   bulkData, dbAtBegin, log, warnings, mediaWarnings, zip,
                   dbOpen, keyReads, chunkVars, schemaVars>>

\* db.Close() after the batch loop; its error is not looked at.
CloseDB ==
    /\ pc = "close"
    /\ dbOpen' = FALSE
    /\ pc' = "zip"
    /\ UNCHANGED <<export, db0, db, tx, dir, i, startMessageID,
                   universalMessages, bulkData, dbAtBegin, log, warnings,
                   mediaWarnings, committedIds, lastError, zip, keyReads,
                   chunkVars, schemaVars>>

\* createSimplexZip: the output file is created, then the extracted
\* directory is walked into it; an error of the walk leaves the file as far
\* as it was written.
CreateZip ==
    /\ pc = "zip"
    /\ \E outcome \in {"ok", "create_err", "walk_err"} :
         IF outcome = "ok"
         THEN /\ zip' = <<db, dir>>
              /\ pc' = "done"
              /\ UNCHANGED lastError
         ELSE /\ Fatal("zip", outcome)
              /\ zip' = IF outcome = "walk_err" THEN <<"partial">> ELSE zip
    /\ UNCHANGED <<export, db0, db, tx, dir, i, startMessageID,
                   universalMessages, bulkData, dbAtBegin, log, warnings,
                   mediaWarnings, committedIds, dbOpen, keyReads, chunkVars,
                   schemaVars>>

Next ==
    \/ Prepare
    \/ BeginBatch
    \/ InsertMessages
    \/ InsertChatItems
    \/ InsertChatItemMessages
    \/ InsertMsgDeliveries
    \/ InsertReactions
    \/ CommitBatch
    \/ CloseDB
    \/ CreateZip

Spec == Init /\ [][Next]_vars


(* ---------------------- chunking specification ------------------------ *)

\* The chunk loop of a bulk insert on its own: a table of numColumns columns
\* and a batch of rows, numbered in their order.
InitChunk ==
    /\ chunkIn \in {[numColumns |-> c, rows |-> [k \in 1..n |-> k]] :
                      c \in 1..MaxColumns, n \in 1..MaxRows}
    /\ chunkOut = <<>>
    /\ schemaIn = NoSchemaCall
    /\ schemaOut = NoSchemaResult
    /\ pc = "chunking"
    /\ export = <<>>
    /\ db0 = EmptyDB
    /\ db = EmptyDB
    /\ tx = EmptyDB
    /\ dir = EmptyMap
    /\ i = 0
    /\ startMessageID = 0
    /\ universalMessages = <<>>
    /\ bulkData = NoData
    /\ dbAtBegin = EmptyDB
    /\ log = <<>>
    /\ warnings = <<>>
    /\ mediaWarnings = <<>>
    /\ committedIds = {}
    /\ lastError = NoError
    /\ zip = <<>>
    /\ dbOpen = TRUE
    /\ keyReads = <<>>

\* The statements the loop issues: one per chunk, in order.
ChunkBatch ==
    /\ pc = "chunking"
    /\ chunkOut' = Chunks(chunkIn.rows,
                          calculateChunkSize(chunkIn.numColumns, MaxParams))
    /\ pc' = "chunked"
    /\ UNCHANGED <<chunkIn, export, db0, db, tx, dir, i, startMessageID,
                   universalMessages, bulkData, dbAtBegin, log, warnings,
                   mediaWarnings, committedIds, lastError, zip, dbOpen,
                   keyReads, schemaVars>>

NextChunk == ChunkBatch

SpecChunk == InitChunk /\ [][NextChunk]_vars


(* ------------------------------ claims -------------------------------- *)

\* The rows of a table the run has added to it.
NewRows(database, tableName) ==
    SubSeq(database[tableName], Len(db0[tableName]) + 1, Len(database[tableName]))

\* C1: when a step of a batch (the key read, a table insert or the commit)
\* returns an error, every target table holds afterwards exactly the rows it
\* held when the batch started.
C1_BatchAtomicity ==
    (pc = "fatal" /\ lastError.step \in BatchSteps) =>
        \A t \in Tables : /\ Len(db[t]) = Len(dbAtBegin[t])
                          /\ db[t] = dbAtBegin[t]

\* A batch failed in its reactions step after it had written rows.
C1_Witness ==
    /\ pc = "fatal"
    /\ lastError.step = "reactions"
    /\ \E k \in DOMAIN log : log[k].table = "messages"
    /\ \E k \in DOMAIN log : log[k].table = "msg_deliveries"

\* C2: a failure of insertFileAttachment for a message fails the batch: no
\* committed batch contains a message whose attachment insertion failed.
C2_AttachmentFailureFailsBatch ==
    \A k \in DOMAIN warnings : warnings[k].id \notin committedIds

\* The tables whose rows are built from introspected columns.
IntrospectedTables == Tables \ {"chat_item_reactions"}

KeySpaces ==
    { <<"messages", "message_id">>, <<"chat_items", "chat_item_id">>,
      <<"chat_item_messages", "rowid">>, <<"msg_deliveries", "msg_delivery_id">>,
      <<"msg_deliveries", "agent_msg_id">>, <<"files", "file_id">>,
      <<"chat_item_reactions", "chat_item_reaction_id">> }

\* The keys the run has assigned in a key space, in the order of the rows.
AssignedKeys(ks) ==
    LET new == NewRows(tx, ks[1]) IN [k \in DOMAIN new |-> new[k][ks[2]][1]]

KeysFresh(ks) ==
    \A k \in DOMAIN AssignedKeys(ks) :
        AssignedKeys(ks)[k] > MaxKey(db0[ks[1]], ks[2])

KeysIncreasing(ks) ==
    \A k \in DOMAIN AssignedKeys(ks) :
        k > 1 => AssignedKeys(ks)[k - 1] < AssignedKeys(ks)[k]

\* C4: in every key space the keys assigned during the run are greater than
\* the largest key the table held at run start and strictly increasing in
\* the order of the messages.
C4_KeysFreshAndIncreasing ==
    \A ks \in KeySpaces : KeysFresh(ks) /\ KeysIncreasing(ks)


(* --------------------------- claims: replies -------------------------- *)

ExportIds == {export[k].ID : k \in DOMAIN export}

PosOf(id) == CHOOSE k \in DOMAIN export : export[k].ID = id

\* The row the run wrote into a table for the message `id`.
HasRowOf(tableName, id) ==
    \E r \in Range(NewRows(tx, tableName)) : r["shared_msg_id"] = V(Bytes(id))

RowOf(tableName, id) ==
    CHOOSE r \in Range(NewRows(tx, tableName)) : r["shared_msg_id"] = V(Bytes(id))

\* params of the payload of the messages row of `id`.
PayloadParams(id) == RowOf("messages", id)["msg_body"][1][2].params

\* The second pass of main has run.
Converted == Len(universalMessages) = Len(export)

QuoteColumns ==
    {"quoted_shared_msg_id", "quoted_sent_at", "quoted_content", "quoted_sent"}

NoQuoteInRows(id) ==
    /\ HasRowOf("chat_items", id) =>
          \A c \in QuoteColumns : RowOf("chat_items", id)[c] = Null
    /\ HasRowOf("messages", id) => "quote" \notin DOMAIN PayloadParams(id)

\* Message m is a reply to a message of the export before it.
RepliesToEarlier(m) ==
    /\ export[m].Reference # Null
    /\ export[m].Reference[1] \in ExportIds
    /\ PosOf(export[m].Reference[1]) < m

\* Message m is a reply to a message of the export after it.
RepliesToLater(m) ==
    /\ export[m].Reference # Null
    /\ export[m].Reference[1] \in ExportIds
    /\ PosOf(export[m].Reference[1]) > m

\* The chat_items row of `id` quotes message N: N's text, N's timestamp as
\* formatted for N's own row, N's token.
QuotesInRow(id, N) ==
    LET r == RowOf("chat_items", id) IN
    /\ r["quoted_content"] = V(Json([type |-> "text", text |-> N.Content]))
    /\ r["quoted_sent_at"] = V(FormatSQL(ParseRFC3339(N.Timestamp)))
    /\ r["quoted_shared_msg_id"] = V(Bytes(N.ID))

\* C5: the chat_items row of a reply to an earlier message N of the run
\* carries N's text in quoted_content, the timestamp stored in N's own row
\* in quoted_sent_at, and the token of N's rows in quoted_shared_msg_id.
C5_QuoteOfEarlierMessage ==
    \A m \in DOMAIN export :
        (RepliesToEarlier(m) /\ HasRowOf("chat_items", export[m].ID)) =>
            LET N == export[PosOf(export[m].Reference[1])]
                r == RowOf("chat_items", export[m].ID)
            IN  /\ HasRowOf("chat_items", N.ID)
                /\ HasRowOf("messages", N.ID)
                /\ QuotesInRow(export[m].ID, N)
                /\ r["quoted_sent_at"] = RowOf("chat_items", N.ID)["item_ts"]
                /\ r["quoted_sent_at"] = RowOf("messages", N.ID)["created_at"]
                /\ r["quoted_shared_msg_id"] = RowOf("chat_items", N.ID)["shared_msg_id"]

\* The row of a reply to the message before it has been written.
C5_Witness ==
    \E m \in DOMAIN export :
        /\ RepliesToEarlier(m)
        /\ HasRowOf("chat_items", export[m].ID)
        /\ RowOf("chat_items", export[m].ID)["quoted_sent_at"] # Null

C7_NoReferenceNoQuote ==
    \A m \in DOMAIN export :
        export[m].Reference = Null => NoQuoteInRows(export[m].ID)

\* A message without reference got its chat_items row in a database whose
\* template row holds values in the quote columns.
C7_Witness ==
    \E m \in DOMAIN export :
        /\ export[m].Reference = Null
        /\ HasRowOf("chat_items", export[m].ID)
        /\ HasRowOf("messages", export[m].ID)
        /\ db0["chat_items"] # <<>>
        /\ \A c \in QuoteColumns : db0["chat_items"][1][c] # Null

\* C8: a reply to a message that is not in the run gets no quote (no quote
\* view, NULL quote columns, no quote object in the payload) and keeps the
\* referenced identifier unchanged as its reply reference.
C8_AbsentReferenceKept ==
    \A m \in DOMAIN export :
        (export[m].Reference # Null /\ export[m].Reference[1] \notin ExportIds) =>
            /\ NoQuoteInRows(export[m].ID)
            /\ Converted =>
                 /\ universalMessages[m].QuotedMessage = Null
                 /\ universalMessages[m].ReplyToID = export[m].Reference
                 /\ universalMessages[m].Reference = export[m].Reference

\* The rows of a reply to an absent message have been written.
C8_Witness ==
    \E m \in DOMAIN export :
        /\ export[m].Reference = V(AbsentId)
        /\ HasRowOf("chat_items", export[m].ID)
        /\ HasRowOf("messages", export[m].ID)
        /\ db0["chat_items"] # <<>>

(* ------------------------ claims: order, chunks ----------------------- *)

\* The place of a table in the order message, chat item, link, delivery,
\* attachment files, reactions.
Rank(tableName) ==
    CASE tableName = "messages"            -> 1
      [] tableName = "chat_items"          -> 2
      [] tableName = "chat_item_messages"  -> 3
      [] tableName = "msg_deliveries"      -> 4
      [] tableName \in {"files", "snd_files", "rcv_files"} -> 5
      [] OTHER                             -> 6

\* C9: within a batch no row of a later table of the order is written
\* before every row of the earlier tables.
C9_FixedWriteOrder ==
    \A p, q \in DOMAIN log :
        p < q => Rank(log[p].table) <= Rank(log[q].table)

CeilDiv(a, b) == (a + b - 1) \div b

ChunkRows(statements) ==
    Flatten([c \in DOMAIN statements |-> statements[c].chunk])

IsPrefix(s, t) == Len(s) <= Len(t) /\ SubSeq(t, 1, Len(s)) = s

\* The run died in a batch that came after a committed one.
FailedAfterCommit ==
    /\ pc = "fatal"
    /\ lastError.step \in BatchSteps
    /\ committedIds # {}

\* C11: batches are independent: no step of the run, a failing batch
\* included, removes or changes a row of the committed database, so the
\* rows of the committed batches 1..N-1 are still there after batch N failed.
C11_CommittedRowsStay ==
    [][\A t \in Tables : IsPrefix(db[t], db'[t])]_vars

\* Batch 2 failed after it had written rows, and the rows batch 1 committed
\* are in the database.
C11_Witness ==
    /\ FailedAfterCommit
    /\ log # <<>>
    /\ \A t \in {"messages", "chat_items", "chat_item_messages", "msg_deliveries"} :
          Len(db[t]) = Len(db0[t]) + Cardinality(committedIds)

\* C12: a failed batch ends only itself: the run is over after a failed
\* batch only when no batch remained to be attempted.
C12_RunGoesOnAfterFailure ==
    (pc = "fatal" /\ lastError.step \in BatchSteps) =>
        i + batchSize >= Len(universalMessages)

(* ------------------------ claims: error policy ------------------------ *)

\* C13: a schema error in any target table, the attachment tables
\* included, ends the run at once: the batch in which a template, key or
\* column query failed is never committed.
C13_SchemaErrorEndsRun ==
    \A k \in DOMAIN warnings :
        warnings[k].err = "schema_err" =>
            /\ warnings[k].id \notin committedIds
            /\ pc \notin {"begin", "close", "zip", "done"}

\* C14: an error of the image or video encoder fails the table step that
\* met it, so no message whose media could not be materialized is in a
\* committed batch.
C14_MediaFailureFailsBatch ==
    \A k \in DOMAIN mediaWarnings : mediaWarnings[k].id \notin committedIds

(* ----------------------- claims: identity, counts --------------------- *)

\* The batch whose keys bulkData holds has been committed.
BatchCommitted ==
    /\ bulkData.Messages # <<>>
    /\ \A k \in DOMAIN bulkData.Messages :
          bulkData.Messages[k].Message.ID \in committedIds

\* The rows the run added to a table that hold v in a column.
Sel(tableName, col, v) ==
    SelectSeq(NewRows(db, tableName), LAMBDA r : r[col] = V(v))

LogOf(tableName) == SelectSeq(log, LAMBDA e : e.table = tableName)

\* The rows of the four per-message tables agree on the keys of msgData.
IdentityOfRows(msgData) ==
    LET m == msgData.MessageID
        c == msgData.ChatItemID
        t == msgData.SharedMsgID
    IN  /\ Len(Sel("messages", "message_id", m)) = 1
        /\ Len(Sel("messages", "shared_msg_id", t)) = 1
        /\ Sel("messages", "message_id", m)[1]["shared_msg_id"] = V(t)
        /\ Len(Sel("chat_items", "chat_item_id", c)) = 1
        /\ Len(Sel("chat_items", "created_by_msg_id", m)) = 1
        /\ Len(Sel("chat_items", "shared_msg_id", t)) = 1
        /\ Sel("chat_items", "chat_item_id", c)[1]["created_by_msg_id"] = V(m)
        /\ Sel("chat_items", "chat_item_id", c)[1]["shared_msg_id"] = V(t)
        /\ Len(Sel("chat_item_messages", "chat_item_id", c)) = 1
        /\ Len(Sel("chat_item_messages", "message_id", m)) = 1
        /\ Sel("chat_item_messages", "chat_item_id", c)[1]["message_id"] = V(m)
        /\ Len(Sel("msg_deliveries", "message_id", m)) = 1

\* The files and reaction rows that carry the keys of msgData are its own.
IdentityOfExtras(msgData) ==
    LET msg == msgData.Message
        own == Sel("files", "chat_item_id", msgData.ChatItemID)
    IN  /\ Len(own) <= (IF Len(msg.Attachments) > 0 THEN 1 ELSE 0)
        /\ \A k \in DOMAIN own :
              own[k]["file_name"] = V(TruncateFilename(msg.Attachments[1].Filename))
        /\ Len(Sel("chat_item_reactions", "shared_msg_id", msgData.SharedMsgID))
              = Len(msg.Reactions)

\* Every files and reaction row of the batch carries the key of a message of
\* the batch.
ExtrasBelong ==
    /\ \A k \in DOMAIN LogOf("files") :
          \E d \in Range(bulkData.Messages) :
              LogOf("files")[k].row["chat_item_id"] = V(d.ChatItemID)
    /\ \A k \in DOMAIN LogOf("chat_item_reactions") :
          \E d \in Range(bulkData.Messages) :
              /\ LogOf("chat_item_reactions")[k].row["shared_msg_id"] = V(d.SharedMsgID)
              /\ d.Message.Reactions # <<>>

\* C15: the rows of every message of a committed batch agree on its
\* identity: message key m, chat-item key c and token t appear together in
\* its messages, chat_items, chat_item_messages and msg_deliveries rows, its
\* files rows carry c, its reaction rows carry t, and no other row the run
\* wrote carries m, c or t.
C15_CrossTableIdentity ==
    BatchCommitted =>
        /\ \A d \in Range(bulkData.Messages) :
              IdentityOfRows(d) /\ IdentityOfExtras(d)
        /\ ExtrasBelong

\* The second batch has been committed on a database in use, with a files
\* row or reaction rows among the rows of the run.
C15_Witness ==
    /\ BatchCommitted
    /\ Cardinality(committedIds) > Len(bulkData.Messages)
    /\ db0 = SeedDB
    /\ \/ NewRows(db, "files") # <<>>
       \/ NewRows(db, "chat_item_reactions") # <<>>

\* Every batch of the run has been committed.
RunSucceeded == pc \in {"close", "zip", "done"}

PerMessageTables ==
    {"messages", "chat_items", "chat_item_messages", "msg_deliveries"}

\* The three-message scenario: the second message replies to the first.
IsScenario ==
    /\ Len(export) = 3
    /\ export[2].Reference = V(export[1].ID)
    /\ export[1].Reference = Null
    /\ export[3].Reference = Null

\* C16: a successful import of N messages adds exactly N rows to each of
\* messages, chat_items, chat_item_messages and msg_deliveries, one per
\* message, however the run was split in batches and chunks; in the
\* three-message scenario the second chat_items row quotes the first
\* message.
C16_OneRowPerMessage ==
    RunSucceeded =>
        /\ \A t \in PerMessageTables : Len(NewRows(db, t)) = Len(export)
        /\ \A k \in DOMAIN export :
              LET token == Bytes(export[k].ID) IN
              /\ Len(Sel("messages", "shared_msg_id", token)) = 1
              /\ Len(Sel("chat_items", "shared_msg_id", token)) = 1
              /\ LET m == Sel("messages", "shared_msg_id", token)[1]["message_id"][1]
                 IN  /\ Len(Sel("chat_item_messages", "message_id", m)) = 1
                     /\ Len(Sel("msg_deliveries", "message_id", m)) = 1
        /\ IsScenario =>
              /\ NewRows(db, "chat_items")[2]["shared_msg_id"] = V(Bytes(export[2].ID))
              /\ QuotesInRow(export[2].ID, export[1])

\* The three-message scenario has been imported: "hello" sent, "hi back"
\* received in reply to it, "lol" sent.
C16_Witness ==
    /\ pc = "done"
    /\ IsScenario
    /\ export[1].Author = myUsername
    /\ Len(NewRows(db, "messages")) = 3
    /\ NewRows(db, "chat_items")[2]["quoted_content"] # Null

\* C17: the token of a message is its source identifier as bytes, whatever
\* the database held, whichever batch the message is in and wherever it
\* stands in it; tokens of different identifiers differ, so the tokens of
\* the rows of a run are pairwise distinct.
C17_TokenFromIdentifier ==
    /\ \A k \in DOMAIN bulkData.Messages :
          bulkData.Messages[k].SharedMsgID = Bytes(bulkData.Messages[k].Message.ID)
    /\ \A t \in {"messages", "chat_items"} :
          LET rows == NewRows(tx, t) IN
          /\ \A k \in DOMAIN rows :
                /\ k <= Len(export)
                /\ rows[k]["shared_msg_id"] = V(Bytes(export[k].ID))
          /\ \A a, b \in DOMAIN rows :
                a # b => rows[a]["shared_msg_id"] # rows[b]["shared_msg_id"]
    /\ \A a, b \in ExportIds \cup {AbsentId} : a # b => Bytes(a) # Bytes(b)

\* Messages of two batches have their rows, on a database in use.
C17_Witness ==
    /\ Len(NewRows(tx, "chat_items")) > batchSize
    /\ db0 # EmptyDB
    /\ i > 0

(* -------------------------- claims: reactions ------------------------- *)

\* An emoji name without its variation selectors.
WithoutSelectors(name) == SelectSeq(name, LAMBDA cp : cp \notin {"FE0E", "FE0F"})

\* The reactions of the export: message k, entry r.
ExportReactions ==
    UNION {{<<k, r>> : r \in DOMAIN export[k].Reactions} : k \in DOMAIN export}

\* The rows the run added for the reaction r of message k.
ReactionRowsOf(k, r) ==
    SelectSeq(NewRows(db, "chat_item_reactions"),
        LAMBDA row :
            /\ row["shared_msg_id"] = V(Bytes(export[k].ID))
            /\ row["reaction"] =
                  V(Json([type  |-> "emoji",
                          emoji |-> WithoutSelectors(export[k].Reactions[r].emoji[1].name)])))

\* C18: after a successful run every reaction of every imported message has
\* exactly one chat_item_reactions row, with the token of its message and
\* its emoji without variation selectors, and the table gained no other row.
C18_AllReactionsImported ==
    RunSucceeded =>
        /\ \A kr \in ExportReactions : Len(ReactionRowsOf(kr[1], kr[2])) = 1
        /\ Len(NewRows(db, "chat_item_reactions")) = Cardinality(ExportReactions)

\* A run ended with the two reactions of a message of its second batch
\* imported, one of them named with a variation selector.
C18_Witness ==
    /\ pc = "done"
    /\ \E kr \in ExportReactions :
          /\ kr[1] > batchSize
          /\ "FE0F" \in Range(export[kr[1]].Reactions[kr[2]].emoji[1].name)
    /\ Len(NewRows(db, "chat_item_reactions")) = 2
    /\ db0 = SeedDB

(* -------------------- introspection specification --------------------- *)

\* PRAGMA table_info(tableName): the column rows of a table of the schema;
\* for a name that is no table, no row and no error.
QueryTableInfo(present, tableName) ==
    IF present THEN getTableColumns(tableName) ELSE <<>>

\* getTableColumns with its error return: the error of the query itself, or
\* the names of the rows the query gave.
getTableColumnsResult(call) ==
    IF ~call.queryOk
    THEN [columns |-> <<>>, err |-> "query_err", chunkSize |-> 0]
    ELSE [columns |-> QueryTableInfo(call.present, call.tableName),
          err |-> "", chunkSize |-> 0]

\* The first query of getTemplateRow, SELECT MAX(idColumn) FROM tableName:
\* an error when the table does not exist.
TemplateQueryErr(call) == IF call.present THEN "" ELSE "no_such_table"

\* A call of getTableColumns or of a caller of it, for a table that exists
\* or not, with a PRAGMA query that works or not.
InitSchema ==
    /\ schemaIn \in [tableName : Tables, present : BOOLEAN, queryOk : BOOLEAN]
    /\ schemaOut = NoSchemaResult
    /\ pc = "schema"
    /\ chunkIn = [numColumns |-> 1, rows |-> <<>>]
    /\ chunkOut = <<>>
    /\ export = <<>>
    /\ db0 = EmptyDB
    /\ db = EmptyDB
    /\ tx = EmptyDB
    /\ dir = EmptyMap
    /\ i = 0
    /\ startMessageID = 0
    /\ universalMessages = <<>>
    /\ bulkData = NoData
    /\ dbAtBegin = EmptyDB
    /\ log = <<>>
    /\ warnings = <<>>
    /\ mediaWarnings = <<>>
    /\ committedIds = {}
    /\ lastError = NoError
    /\ zip = <<>>
    /\ dbOpen = TRUE
    /\ keyReads = <<>>

\* What the calls of this specification leave alone.
SchemaFrame ==
    UNCHANGED <<export, db0, db, tx, dir, i, startMessageID,
                universalMessages, bulkData, dbAtBegin, log, warnings,
                mediaWarnings, committedIds, zip, dbOpen, keyReads,
                chunkVars>>

\* getTableColumns called on its own.
Introspect ==
    /\ pc = "schema"
    /\ schemaOut' = getTableColumnsResult(schemaIn)
    /\ pc' = "introspected"
    /\ UNCHANGED <<schemaIn, lastError>>
    /\ SchemaFrame

\* A bulk insert up to its template: getTemplateRow comes first.
CallerTemplate ==
    /\ pc = "schema"
    /\ IF TemplateQueryErr(schemaIn) # ""
       THEN /\ pc' = "caller_failed"
            /\ lastError' = [step |-> "template", err |-> TemplateQueryErr(schemaIn)]
       ELSE /\ pc' = "caller_columns"
            /\ UNCHANGED lastError
    /\ UNCHANGED <<schemaIn, schemaOut>>
    /\ SchemaFrame

\* The bulk insert's own call of getTableColumns.
CallerColumns ==
    /\ pc = "caller_columns"
    /\ schemaOut' = getTableColumnsResult(schemaIn)
    /\ IF schemaOut'.err # ""
       THEN /\ pc' = "caller_failed"
            /\ lastError' = [step |-> "columns", err |-> schemaOut'.err]
       ELSE /\ pc' = "caller_chunk"
            /\ UNCHANGED lastError
    /\ UNCHANGED schemaIn
    /\ SchemaFrame

\* calculateChunkSize(len(columns), 900) in the bulk insert: an integer
\* division by zero panics.
CallerChunkSize ==
    /\ pc = "caller_chunk"
    /\ IF Len(schemaOut.columns) = 0
       THEN /\ pc' = "panic"
            /\ UNCHANGED schemaOut
       ELSE /\ pc' = "caller_inserting"
            /\ schemaOut' = [schemaOut EXCEPT !.chunkSize =
                                calculateChunkSize(Len(schemaOut.columns), MaxParams)]
    /\ UNCHANGED <<schemaIn, lastError>>
    /\ SchemaFrame

NextSchema ==
    \/ Introspect
    \/ CallerTemplate
    \/ CallerColumns
    \/ CallerChunkSize

SpecSchema == InitSchema /\ [][NextSchema]_vars

\* C19: introspection of a table that does not exist fails: getTableColumns
\* never returns an empty column list without an error.
C19_MissingTableFails ==
    pc = "introspected" => (schemaOut.columns = <<>> => schemaOut.err # "")

(* -------------------------- claims: templates ------------------------- *)

\* The key column by which the template row of a table is looked up.
TemplateIdColumn(tableName) ==
    CASE tableName = "messages"           -> "message_id"
      [] tableName = "chat_items"         -> "chat_item_id"
      [] tableName = "chat_item_messages" -> "rowid"
      [] tableName = "msg_deliveries"     -> "msg_delivery_id"
      [] OTHER                            -> "file_id"

\* C20: the template of a table is sampled once per run: every row the run
\* synthesizes into a table takes its defaults from the template row the
\* table held before the run, never from a row the run inserted.
C20_TemplateSampledOncePerRun ==
    \A k \in DOMAIN log :
        log[k].table \in IntrospectedTables =>
            log[k].template =
                getTemplateRow(db0, log[k].table, TemplateIdColumn(log[k].table))

(* ------------------------ claims: keys, chunking ---------------------- *)

\* The key space a key query reads.
KeySpaceOf(read) == <<read.table, read.column>>

\* C21: within a batch the next key of every key space is read from the
\* database at most once, and no key query runs against a table that
\* already holds rows the batch has written.
C21_KeysReadOncePerBatch ==
    \A a, b \in DOMAIN keyReads :
        /\ a # b => KeySpaceOf(keyReads[a]) # KeySpaceOf(keyReads[b])
        /\ keyReads[a].seen = Len(dbAtBegin[keyReads[a].table])

\* C22: for a table of C >= 1 columns the chunk size k computed for the
\* ceiling of 900 parameters is at least 1 and k * C is at most 900, so no
\* statement of the chunk loop binds more than 900 parameters.
C22_ChunkWithinCeiling ==
    pc = "chunked" =>
        LET k == calculateChunkSize(chunkIn.numColumns, MaxParams) IN
        /\ k >= 1
        /\ k * chunkIn.numColumns <= MaxParams
        /\ \A c \in DOMAIN chunkOut :
               Len(chunkOut[c].chunk) * chunkIn.numColumns <= MaxParams

(* ------------------- claims: what a run leaves behind ----------------- *)

\* C23: the import only adds rows: every row the database held when the
\* run started is still there, unchanged and in its place, in the committed
\* database and in the view of the open transaction, whatever batches
\* succeeded or failed.
C23_AdditiveOnly ==
    \A t \in Tables : IsPrefix(db0[t], db[t]) /\ IsPrefix(db0[t], tx[t])

\* On a database that held rows, a batch was committed and the next one
\* failed after it had written rows.
C23_Witness ==
    /\ FailedAfterCommit
    /\ log # <<>>
    /\ \A t \in {"messages", "chat_items", "msg_deliveries"} :
          db0[t] # <<>> /\ Len(db[t]) > Len(db0[t])

\* C24: the output ZIP is written only after every batch has been committed
\* and the database connection closed, and it holds the committed database
\* and the files directory; a run that died in a batch has produced no ZIP.
C24_ZipAfterAllCommitted ==
    /\ zip # <<>> =>
          /\ ~dbOpen
          /\ committedIds = ExportIds
          /\ lastError.step \notin BatchSteps
          /\ Len(zip) = 2 => zip = <<db, dir>>
    /\ (pc = "fatal" /\ lastError.step \in BatchSteps) => zip = <<>>

\* The ZIP of a run of two batches has been written.
C24_Witness ==
    /\ pc = "done"
    /\ zip = <<db, dir>>
    /\ i > batchSize
    /\ dir # EmptyMap

\* The content of the first attachment of a message of a committed batch.
CommittedContents ==
    {universalMessages[k].Attachments[1].URL :
        k \in {j \in DOMAIN universalMessages :
                 /\ universalMessages[j].ID \in committedIds
                 /\ Len(universalMessages[j].Attachments) > 0}}

\* C25: after a batch has been rolled back, no attachment file copied for
\* that batch is left in the SimpleX files directory: every file there
\* belongs to a message of a committed batch.
C25_NoFileOfRolledBackBatch ==
    (pc = "fatal" /\ lastError.step \in BatchSteps) =>
        \A n \in DOMAIN dir : dir[n] \in CommittedContents

(* ------------------------- claims: attachments ------------------------ *)

\* The committed files rows of the chat item of msgData.
FilesRowsOf(msgData) == Sel("files", "chat_item_id", msgData.ChatItemID)

\* The messages of the committed batch that have a files row.
WithFilesRow ==
    {k \in DOMAIN bulkData.Messages : Len(FilesRowsOf(bulkData.Messages[k])) > 0}

\* C26: the attachments of different messages are stored under different
\* paths: the file_path values of their files rows differ, and each path
\* holds the content of its own attachment, not that of one copied later.
C26_DistinctPaths ==
    BatchCommitted =>
        \A j, k \in WithFilesRow :
            LET rowJ == FilesRowsOf(bulkData.Messages[j])[1]
                rowK == FilesRowsOf(bulkData.Messages[k])[1]
            IN  /\ j # k => rowJ["file_path"] # rowK["file_path"]
                /\ dir[rowJ["file_path"][1]] =
                      bulkData.Messages[j].Message.Attachments[1].URL

\* C27: the payload of a message carries a file descriptor (params.file)
\* exactly when a files row exists for the chat item of that message.
C27_FileDescriptorIffFilesRow ==
    BatchCommitted =>
        \A k \in DOMAIN bulkData.Messages :
            LET msgData == bulkData.Messages[k] IN
            ("file" \in DOMAIN PayloadParams(msgData.Message.ID))
                <=> (Len(FilesRowsOf(msgData)) > 0)

\* C28: the kind under which a message with attachments is written is the
\* kind of its first attachment, the one that is embedded and recorded: the
\* kind the payload is built under and the protocol of the files row are
\* those of the first attachment.
C28_KindOfFirstAttachment ==
    BatchCommitted =>
        \A k \in DOMAIN bulkData.Messages :
            LET msgData == bulkData.Messages[k]
                msg     == msgData.Message
            IN  Len(msg.Attachments) > 0 =>
                  LET kind == MessageTypeOfExt(msg.Attachments[1].Filename.ext) IN
                  /\ msg.MessageType = kind
                  /\ \A n \in DOMAIN FilesRowsOf(msgData) :
                        FilesRowsOf(msgData)[n]["protocol"] = V(FileProtocol(kind))

\* C29: every committed files row of an attachment that is not a video has
\* exactly one transfer row of its file_id, in snd_files when the user sent
\* the message and in rcv_files otherwise, never in both; the files row of
\* a video has protocol 'local' and no transfer row.
C29_OneTransferRow ==
    \A n \in DOMAIN NewRows(db, "files") :
        LET f   == NewRows(db, "files")[n]
            snd == Sel("snd_files", "file_id", f["file_id"][1])
            rcv == Sel("rcv_files", "file_id", f["file_id"][1])
        IN  IF f["protocol"] = V("local")
            THEN Len(snd) = 0 /\ Len(rcv) = 0
            ELSE IF f["ci_file_status"] = V("snd_complete")
            THEN Len(snd) = 1 /\ Len(rcv) = 0
            ELSE Len(snd) = 0 /\ Len(rcv) = 1

(* ---------------------------- claims: quotes -------------------------- *)

\* C30: for every reply that resolves, the 'sent' flag of the quote
\* reference in the payload and quoted_sent of the chat_items row are equal,
\* and both tell whether the quoted message was sent by the importing user.
C30_QuoteDirection ==
    \A m \in DOMAIN export :
        ( /\ export[m].Reference # Null
          /\ export[m].Reference[1] \in ExportIds
          /\ HasRowOf("messages", export[m].ID)
          /\ HasRowOf("chat_items", export[m].ID) ) =>
            LET N      == export[PosOf(export[m].Reference[1])]
                isSent == N.Author = myUsername
                msgRef == PayloadParams(export[m].ID).quote.msgRef
                r      == RowOf("chat_items", export[m].ID)
            IN  /\ msgRef.sent = isSent
                /\ r["quoted_sent"] = V(IF isSent THEN 1 ELSE 0)

=============================================================================
